---- MODULE Spec2Model ----
(***************************************************************************)
(* Checkers rules engine (GameBoard) and search engine (SearchToolBox).    *)
(* The board is the program's list of rows: a sequence of size rows, each  *)
(* a sequence of size piece characters "w" "W" "b" "B" or "." (empty);     *)
(* the program's board[r][c] is At(bd, r, c) here, rows and columns        *)
(* counted from 0 as in the program.                                       *)
(* Operations that mutate the board in place (capture-chain generation     *)
(* with its mutate/restore pairs, ApplyMove) return the board they leave   *)
(* behind together with their result.                                      *)
(***************************************************************************)
EXTENDS Integers, Sequences, FiniteSets, TLC

VARIABLES Board, op, arg, pre, ret, nmoves, Heap, Refs

vars == <<Board, op, arg, pre, ret, nmoves, Heap, Refs>>

(***************************************************************************)
(* GameBoard                                                               *)
(***************************************************************************)
size == 8

Rows == 0..(size - 1)

Coordinate == Rows \X Rows

Pieces == {"w", "W", "b", "B", "."}

Sides == {"w", "b"}

\* board[r][c] of the program, read and written.
At(bd, r, c) == bd[r + 1][c + 1]

Put(bd, r, c, piece) == [bd EXCEPT ![r + 1][c + 1] = piece]

\* InitialCell with the black men on two rows only.
InitialCell_two_rows(r, c) ==
    IF (r + c) % 2 = 1 /\ r < 2 THEN "b"
    ELSE IF (r + c) % 2 = 1 /\ r >= 5 THEN "w"
    ELSE "."

\* The cell the loops of _InitialBoard leave at (r, c).
InitialCell(r, c) ==
    IF (r + c) % 2 = 1 /\ r < 3 THEN "b"
    ELSE IF (r + c) % 2 = 1 /\ r >= 5 THEN "w"
    ELSE "."

\* A row and a board built cell by cell, in the program's order: all cells
\* empty, or filled as _InitialBoard fills them.
RECURSIVE MakeRow(_, _, _)
MakeRow(filled, r, c) ==
    IF c >= size THEN <<>>
    ELSE <<IF filled THEN InitialCell(r, c) ELSE ".">> \o MakeRow(filled, r, c + 1)

RECURSIVE MakeRows(_, _)
MakeRows(filled, r) ==
    IF r >= size THEN <<>> ELSE <<MakeRow(filled, r, 0)>> \o MakeRows(filled, r + 1)

EmptyBoard == MakeRows(FALSE, 0)

_InitialBoard == MakeRows(TRUE, 0)

\* Move with the start and the end cell exchanged.
Move_ends_exchanged(start, target, path, is_capture, captured) ==
    [StartingMoveLocation |-> target, TargetingMoveLocation |-> start,
     path |-> path, is_capture |-> is_capture, captured |-> captured]

Move(start, target, path, is_capture, captured) ==
    [StartingMoveLocation |-> start,
     TargetingMoveLocation |-> target,
     path |-> path,
     is_capture |-> is_capture,
     captured |-> captured]

\* Clone: a new list of rows, each row a copy (row[:]) of the original's.
RECURSIVE CloneRows(_, _)
CloneRows(bd, i) ==
    IF i > Len(bd) THEN <<>> ELSE <<SubSeq(bd[i], 1, Len(bd[i]))>> \o CloneRows(bd, i + 1)

Clone(bd) == CloneRows(bd, 1)

Inside(r, c) == 0 <= r /\ r < size /\ 0 <= c /\ c < size

PieceAt(bd, rc) == At(bd, rc[1], rc[2])

SetPiece(bd, rc, piece) == Put(bd, rc[1], rc[2], piece)

_HasPieces(bd, side) ==
    LET targets == IF side = "w" THEN {"w", "W"} ELSE {"b", "B"}
    IN  \E rc \in Coordinate : At(bd, rc[1], rc[2]) \in targets

_Directions(piece) ==
    IF piece \in {"w", "W"}
    THEN LET ups == << <<-1, -1>>, <<-1, 1>> >>
         IN  IF piece = "W" THEN ups \o << <<1, -1>>, <<1, 1>> >> ELSE ups
    ELSE LET downs == << <<1, -1>>, <<1, 1>> >>
         IN  IF piece = "B" THEN downs \o << <<-1, -1>>, <<1, 1>> >> ELSE downs

_Opponents(side) == IF side = "w" THEN {"b", "B"} ELSE {"w", "W"}

\* try_quiet: the quiet moves appended for one direction (none or one).
\* try_quiet stepping along the column instead of the diagonal.
try_quiet_straight(bd, fr, fc, dr, dc) ==
    IF Inside(fr + dr, fc) /\ At(bd, fr + dr, fc) = "."
    THEN <<Move(<<fr, fc>>, <<fr + dr, fc>>, <<<<fr, fc>>, <<fr + dr, fc>>>>, FALSE, <<>>)>>
    ELSE <<>>

try_quiet(bd, fr, fc, dr, dc) ==
    LET nr == fr + dr
        nc == fc + dc
    IN  IF Inside(nr, nc) /\ At(bd, nr, nc) = "."
        THEN << Move(<<fr, fc>>, <<nr, nc>>, << <<fr, fc>>, <<nr, nc>> >>, FALSE, <<>>) >>
        ELSE <<>>

\* The piece that stands on the landing cell of a jump (promotion mid-chain).
landed_piece(side, lr, piece_local) ==
    IF side = "b" /\ lr = size - 1 /\ piece_local = "b" THEN "B"
    ELSE IF side = "w" /\ lr = 0 /\ piece_local = "w" THEN "W"
    ELSE piece_local

\* The three writes of a jump on the board: the mover leaves its cell, the
\* jumped piece is removed, the landed piece is written to the landing cell.
hypothesise(bd, fr, fc, mr, mc, lr, lc, landed) ==
    Put(Put(Put(bd, fr, fc, "."), mr, mc, "."), lr, lc, landed)

\* The values saved before each of the three writes, in the program's order:
\* <<orig, cap_orig, dest_orig>>.
saved(bd, fr, fc, mr, mc, lr, lc) ==
    <<At(bd, fr, fc),
      At(Put(bd, fr, fc, "."), mr, mc),
      At(Put(Put(bd, fr, fc, "."), mr, mc, "."), lr, lc)>>

\* restore without the write that puts the jumped piece back.
restore_without_captured(bd, fr, fc, mr, mc, lr, lc, sv) ==
    Put(Put(bd, fr, fc, sv[1]), lr, lc, sv[3])

\* The finally block of try_captures: the three cells are written back.
restore(bd, fr, fc, mr, mc, lr, lc, sv) ==
    Put(Put(Put(bd, fr, fc, sv[1]), mr, mc, sv[2]), lr, lc, sv[3])

\* restored with the finally block left out.
restored_not_at_all(st, fr, fc, mr, mc, lr, lc, sv) == st

\* try_captures threads st = [board, captures, seen]: the board it mutates
\* and restores, the list of recorded chains and the set of recorded keys.
restored(st, fr, fc, mr, mc, lr, lc, sv) ==
    [st EXCEPT !.board = restore(@, fr, fc, mr, mc, lr, lc, sv)]

\* can_jump over a piece of either side.
can_jump_any_piece(bd, side, fr, fc, dir) ==
    /\ Inside(fr + 2 * dir[1], fc + 2 * dir[2])
    /\ At(bd, fr + 2 * dir[1], fc + 2 * dir[2]) = "."
    /\ Inside(fr + dir[1], fc + dir[2])
    /\ At(bd, fr + dir[1], fc + dir[2]) # "."

\* The guard of a jump in direction dir from (fr, fc).
can_jump(bd, side, fr, fc, dir) ==
    /\ Inside(fr + 2 * dir[1], fc + 2 * dir[2])
    /\ At(bd, fr + 2 * dir[1], fc + 2 * dir[2]) = "."
    /\ Inside(fr + dir[1], fc + dir[2])
    /\ At(bd, fr + dir[1], fc + dir[2]) \in _Opponents(side)

in_list(x, list) == \E k \in 1..Len(list) : list[k] = x

\* record_chain without the test of the key against seen.
record_chain_unseen(r, path, captured) ==
    IF ~r.found /\ Len(captured) > 0
    THEN [r.st EXCEPT !.captures = Append(@, Move(path[1], path[Len(path)], path,
                                                  TRUE, captured))]
    ELSE r.st

\* The end of try_captures: a chain that no jump extends is recorded once.
record_chain(r, path, captured) ==
    IF ~r.found /\ Len(captured) > 0
    THEN IF <<path[1], path, captured>> \notin r.st.seen
         THEN [r.st EXCEPT !.captures = Append(@, Move(path[1], path[Len(path)], path,
                                                       TRUE, captured)),
                           !.seen = @ \cup {<<path[1], path, captured>>}]
         ELSE r.st
    ELSE r.st

RECURSIVE try_captures(_, _, _, _, _, _, _)
RECURSIVE try_captures_loop(_, _, _, _, _, _, _, _, _)

\* One jump: hypothetical board, recursion from the landing cell, restore.
jump(st, side, fr, fc, dir, piece_local, path, captured) ==
    restored(
        try_captures(
            [st EXCEPT !.board = hypothesise(@, fr, fc, fr + dir[1], fc + dir[2],
                                             fr + 2 * dir[1], fc + 2 * dir[2],
                                             landed_piece(side, fr + 2 * dir[1], piece_local))],
            side, fr + 2 * dir[1], fc + 2 * dir[2],
            landed_piece(side, fr + 2 * dir[1], piece_local),
            Append(path, <<fr + 2 * dir[1], fc + 2 * dir[2]>>),
            Append(captured, <<fr + dir[1], fc + dir[2]>>)),
        fr, fc, fr + dir[1], fc + dir[2], fr + 2 * dir[1], fc + 2 * dir[2],
        saved(st.board, fr, fc, fr + dir[1], fc + dir[2], fr + 2 * dir[1], fc + 2 * dir[2]))

\* The loop of try_captures over the directions, from direction number i.
try_captures_loop(st, side, fr, fc, piece_local, path, captured, i, found) ==
    IF i > Len(_Directions(piece_local)) THEN [st |-> st, found |-> found]
    ELSE IF /\ can_jump(st.board, side, fr, fc, _Directions(piece_local)[i])
            /\ ~in_list(<<fr + _Directions(piece_local)[i][1],
                          fc + _Directions(piece_local)[i][2]>>, captured)
         THEN try_captures_loop(
                  jump(st, side, fr, fc, _Directions(piece_local)[i], piece_local,
                       path, captured),
                  side, fr, fc, piece_local, path, captured, i + 1, TRUE)
         ELSE try_captures_loop(st, side, fr, fc, piece_local, path, captured, i + 1, found)

try_captures(st, side, fr, fc, piece_local, path, captured) ==
    record_chain(try_captures_loop(st, side, fr, fc, piece_local, path, captured, 1, FALSE),
                 path, captured)

RECURSIVE quiets_loop(_, _, _, _)

\* quiets_loop stopping after the first direction.
quiets_loop_first_direction(bd, rc, dirs, i) ==
    IF i > Len(dirs) THEN <<>> ELSE try_quiet(bd, rc[1], rc[2], dirs[i][1], dirs[i][2])

quiets_loop(bd, rc, dirs, i) ==
    IF i > Len(dirs) THEN <<>>
    ELSE try_quiet(bd, rc[1], rc[2], dirs[i][1], dirs[i][2]) \o quiets_loop(bd, rc, dirs, i + 1)

\* acc = [board, captures, quiets] of AllLegalMoves after one more piece.
extended(acc, st, quiets) ==
    [board |-> st.board, captures |-> acc.captures \o st.captures,
     quiets |-> acc.quiets \o quiets]

\* _MovesFrom for the piece on rc, its captures and quiets added to acc; the
\* quiets are generated first, then the chains.
_MovesFrom(acc, rc, piece, side) ==
    extended(acc,
             try_captures([board |-> acc.board, captures |-> <<>>, seen |-> {}],
                          side, rc[1], rc[2], piece, <<rc>>, <<>>),
             quiets_loop(acc.board, rc, _Directions(piece), 1))

\* The loops of AllLegalMoves over the columns of row r and over the rows.
skipped(piece, side) ==
    \/ piece = "."
    \/ (side = "w" /\ piece \notin {"w", "W"})
    \/ (side = "b" /\ piece \notin {"b", "B"})

RECURSIVE scan_cols(_, _, _, _)
scan_cols(acc, side, r, c) ==
    IF c >= size THEN acc
    ELSE IF skipped(At(acc.board, r, c), side)
         THEN scan_cols(acc, side, r, c + 1)
         ELSE scan_cols(_MovesFrom(acc, <<r, c>>, At(acc.board, r, c), side), side, r, c + 1)

RECURSIVE scan_rows(_, _, _)
scan_rows(acc, side, r) ==
    IF r >= size THEN acc ELSE scan_rows(scan_cols(acc, side, r, 0), side, r + 1)

\* return captures if captures else quiets
legal(acc) ==
    [moves |-> IF Len(acc.captures) > 0 THEN acc.captures ELSE acc.quiets,
     board |-> acc.board]

\* AllLegalMoves: [moves, board], the returned list and the board after the call.
AllLegalMoves(bd, side) ==
    legal(scan_rows([board |-> bd, captures |-> <<>>, quiets |-> <<>>], side, 0))

RECURSIVE clear_captured(_, _, _)

\* clear_captured removing the first jumped piece only.
clear_captured_first_only(bd, captured, i) ==
    IF i > Len(captured) \/ i > 1 THEN bd
    ELSE clear_captured(Put(bd, captured[i][1], captured[i][2], "."), captured, i + 1)

clear_captured(bd, captured, i) ==
    IF i > Len(captured) THEN bd
    ELSE clear_captured(Put(bd, captured[i][1], captured[i][2], "."), captured, i + 1)

\* promoted with the two back ranks exchanged.
promoted_wrong_rank(piece, tr) ==
    IF piece = "w" /\ tr = size - 1 THEN "W"
    ELSE IF piece = "b" /\ tr = 0 THEN "B"
    ELSE piece

\* The piece ApplyMove writes to the end cell.
promoted(piece, tr) ==
    IF piece = "w" /\ tr = 0 THEN "W"
    ELSE IF piece = "b" /\ tr = size - 1 THEN "B"
    ELSE piece

ApplyMove(bd, move) ==
    Put(clear_captured(Put(bd, move.StartingMoveLocation[1], move.StartingMoveLocation[2], "."),
                       move.captured, 1),
        move.TargetingMoveLocation[1], move.TargetingMoveLocation[2],
        promoted(At(bd, move.StartingMoveLocation[1], move.StartingMoveLocation[2]),
                 move.TargetingMoveLocation[1]))

\* IsTerminal: [result, board]; the or-chain is evaluated left to right and
\* stops at the first true operand.
terminal_result(am) == [result |-> Len(am.moves) = 0, board |-> am.board]

\* terminal_black without the test of Black's moves.
terminal_white_only(w) ==
    IF Len(w.moves) = 0 THEN [result |-> TRUE, board |-> w.board]
    ELSE [result |-> FALSE, board |-> w.board]

terminal_black(w) ==
    IF Len(w.moves) = 0 THEN [result |-> TRUE, board |-> w.board]
    ELSE terminal_result(AllLegalMoves(w.board, "b"))

IsTerminal(bd) ==
    IF ~_HasPieces(bd, "w") \/ ~_HasPieces(bd, "b")
    THEN [result |-> TRUE, board |-> bd]
    ELSE terminal_black(AllLegalMoves(bd, "w"))

(***************************************************************************)
(* game_utilities                                                          *)
(***************************************************************************)
MoveAnalytics ==
    [NodesExpanded |-> 0, MaxFringeSize |-> 0, AlphaBetaCuts |-> 0,
     OrderingComparisons |-> 0, OrderingGains |-> 0, ElapsedMs |-> 0]

\* HeuristicCell with a white man valued by its row as a black man is.
HeuristicCell_white_by_row(p, r) ==
    IF p = "b" THEN 3 + r
    ELSE IF p = "B" THEN 5
    ELSE IF p = "w" THEN 0 - (3 + r)
    ELSE IF p = "W" THEN 0 - 5
    ELSE 0

HeuristicCell(p, r) ==
    IF p = "b" THEN 3 + r
    ELSE IF p = "B" THEN 5
    ELSE IF p = "w" THEN 0 - (3 + (size - 1 - r))
    ELSE IF p = "W" THEN 0 - 5
    ELSE 0

RECURSIVE HeuristicCols(_, _, _)
HeuristicCols(bd, r, c) ==
    IF c >= size THEN 0
    ELSE HeuristicCell(At(bd, r, c), r) + HeuristicCols(bd, r, c + 1)

RECURSIVE HeuristicRows(_, _)
HeuristicRows(bd, r) ==
    IF r >= size THEN 0 ELSE HeuristicCols(bd, r, 0) + HeuristicRows(bd, r + 1)

HeuristicScore(bd) == HeuristicRows(bd, 0)

(***************************************************************************)
(* SearchToolBox.  The wall clock is read only to compare it with the      *)
(* deadline; the search state s counts these reads (s.polls), and the      *)
(* deadline is given as the number of the first read that finds it         *)
(* expired: time never runs backwards, so every later read finds it        *)
(* expired too.  s.Analytics is self.Analytics.                            *)
(***************************************************************************)
None == <<>>

Some(x) == <<x>>

Inf == 10^9

Max(a, b) == IF a >= b THEN a ELSE b

Min(a, b) == IF a <= b THEN a ELSE b

\* SearchToolBox with pruning in every mode.
SearchToolBox_always_pruning(mode) ==
    [mode |-> mode,
     UseOrdering |-> (mode = "alpha-beta-ordering"),
     UseAlphaBeta |-> TRUE,
     Analytics |-> MoveAnalytics]

SearchToolBox(mode) ==
    [mode |-> mode,
     UseOrdering |-> (mode = "alpha-beta-ordering"),
     UseAlphaBeta |-> (mode \in {"alpha-beta", "alpha-beta-ordering"}),
     Analytics |-> MoveAnalytics]

\* time.time() > deadline, and the state after the read.
Expired(s, deadline) == s.polls >= deadline

Tick(s) == [s EXCEPT !.polls = @ + 1]

\* s after a clock read that found the deadline not expired and counted the
\* node, and after a pruning event.
Expanded(s) == [s EXCEPT !.polls = @ + 1, !.Analytics.NodesExpanded = @ + 1]

Cut(s) == [s EXCEPT !.Analytics.AlphaBetaCuts = @ + 1]

\* return HeuristicScore(bd)
leaf(s, bd) == [s |-> s, val |-> HeuristicScore(bd)]

\* scored.sort(key = score, reverse = True): a stable sort, descending.
RECURSIVE InsertScored(_, _, _)
InsertScored(sorted, x, i) ==
    IF i > Len(sorted) THEN Append(sorted, x)
    ELSE IF sorted[i][1] < x[1]
         THEN SubSeq(sorted, 1, i - 1) \o <<x>> \o SubSeq(sorted, i, Len(sorted))
         ELSE InsertScored(sorted, x, i + 1)

RECURSIVE SortScored(_, _, _)
SortScored(scored, i, sorted) ==
    IF i > Len(scored) THEN sorted
    ELSE SortScored(scored, i + 1, InsertScored(sorted, scored[i], 1))

OrderScore(score, side) == IF side = "w" THEN 0 - score ELSE score

\* The list scored of _OrderMoves, from move number i.
RECURSIVE Scored(_, _, _, _)
Scored(bd, side, moves, i) ==
    IF i > Len(moves) THEN <<>>
    ELSE << <<OrderScore(HeuristicScore(ApplyMove(Clone(bd), moves[i])), side), moves[i]>> >>
         \o Scored(bd, side, moves, i + 1)

\* [m for _, m in scored]
RECURSIVE Unscored(_, _)
Unscored(sorted, i) ==
    IF i > Len(sorted) THEN <<>> ELSE <<sorted[i][2]>> \o Unscored(sorted, i + 1)

\* ordered_result losing the move that sorts first.
ordered_result_loses_first(s, sorted) ==
    [s |-> [s EXCEPT !.Analytics.OrderingComparisons = @ + Max(0, Len(sorted) - 1)],
     moves |-> IF Len(sorted) > 1 THEN Unscored(sorted, 2) ELSE Unscored(sorted, 1)]

ordered_result(s, sorted) ==
    [s |-> [s EXCEPT !.Analytics.OrderingComparisons = @ + Max(0, Len(sorted) - 1)],
     moves |-> Unscored(sorted, 1)]

\* _OrderMoves: [s, moves]
_OrderMoves(self, s, bd, side, moves) ==
    IF ~self.UseOrdering THEN [s |-> s, moves |-> moves]
    ELSE ordered_result(s, SortScored(Scored(bd, side, moves, 1), 1, <<>>))

\* max_value and min_value: [s, val]
RECURSIVE max_value(_, _, _, _, _, _, _)
RECURSIVE min_value(_, _, _, _, _, _, _)
RECURSIVE max_loop(_, _, _, _, _, _, _, _, _, _)
RECURSIVE min_loop(_, _, _, _, _, _, _, _, _, _)

\* The body of max_value's loop after the call of min_value returned r.
max_fold(self, deadline, r, bd, ordered, i, d, a, be, best) ==
    IF self.UseAlphaBeta /\ Max(a, Max(best, r.val)) >= be
    THEN [s |-> Cut(r.s), val |-> Max(best, r.val)]
    ELSE max_loop(self, deadline, r.s, bd, ordered, i + 1, d,
                  Max(a, Max(best, r.val)), be, Max(best, r.val))

max_loop(self, deadline, s, bd, ordered, i, d, a, be, best) ==
    IF i > Len(ordered) THEN [s |-> s, val |-> best]
    ELSE max_fold(self, deadline,
                  min_value(self, deadline, s, ApplyMove(Clone(bd), ordered[i]), d - 1, a, be),
                  bd, ordered, i, d, a, be, best)

max_ordered(self, deadline, o, bd, d, a, be) ==
    max_loop(self, deadline, o.s, bd, o.moves, 1, d, a, be, 0 - Inf)

max_moves(self, deadline, s, am, d, a, be) ==
    IF Len(am.moves) = 0 THEN leaf(s, am.board)
    ELSE max_ordered(self, deadline, _OrderMoves(self, s, am.board, "b", am.moves),
                     am.board, d, a, be)

max_node(self, deadline, s, t, d, a, be) ==
    IF t.result THEN leaf(s, t.board)
    ELSE max_moves(self, deadline, s, AllLegalMoves(t.board, "b"), d, a, be)

max_value(self, deadline, s, bd, d, a, be) ==
    IF Expired(s, deadline) THEN leaf(Tick(s), bd)
    ELSE IF d = 0 THEN leaf(Expanded(s), bd)
    ELSE max_node(self, deadline, Expanded(s), IsTerminal(bd), d, a, be)

\* min_fold with the cut tested against beta instead of alpha.
min_fold_cut_on_beta(self, deadline, r, bd, ordered, i, d, a, be, best) ==
    IF self.UseAlphaBeta /\ be >= Min(be, Min(best, r.val))
    THEN [s |-> Cut(r.s), val |-> Min(best, r.val)]
    ELSE min_loop(self, deadline, r.s, bd, ordered, i + 1, d,
                  a, Min(be, Min(best, r.val)), Min(best, r.val))

\* The body of min_value's loop after the call of max_value returned r.
min_fold(self, deadline, r, bd, ordered, i, d, a, be, best) ==
    IF self.UseAlphaBeta /\ a >= Min(be, Min(best, r.val))
    THEN [s |-> Cut(r.s), val |-> Min(best, r.val)]
    ELSE min_loop(self, deadline, r.s, bd, ordered, i + 1, d,
                  a, Min(be, Min(best, r.val)), Min(best, r.val))

min_loop(self, deadline, s, bd, ordered, i, d, a, be, best) ==
    IF i > Len(ordered) THEN [s |-> s, val |-> best]
    ELSE min_fold(self, deadline,
                  max_value(self, deadline, s, ApplyMove(Clone(bd), ordered[i]), d - 1, a, be),
                  bd, ordered, i, d, a, be, best)

min_ordered(self, deadline, o, bd, d, a, be) ==
    min_loop(self, deadline, o.s, bd, o.moves, 1, d, a, be, Inf)

min_moves(self, deadline, s, am, d, a, be) ==
    IF Len(am.moves) = 0 THEN leaf(s, am.board)
    ELSE min_ordered(self, deadline, _OrderMoves(self, s, am.board, "w", am.moves),
                     am.board, d, a, be)

min_node(self, deadline, s, t, d, a, be) ==
    IF t.result THEN leaf(s, t.board)
    ELSE min_moves(self, deadline, s, AllLegalMoves(t.board, "w"), d, a, be)

min_value(self, deadline, s, bd, d, a, be) ==
    IF Expired(s, deadline) THEN leaf(Tick(s), bd)
    ELSE IF d = 0 THEN leaf(Expanded(s), bd)
    ELSE min_node(self, deadline, Expanded(s), IsTerminal(bd), d, a, be)

\* better with an equal score replacing the incumbent too.
better_or_equal(maximizing, score, best_score) ==
    IF maximizing THEN score >= best_score ELSE score <= best_score

\* score > best_score for Black, score < best_score for White
better(maximizing, score, best_score) ==
    IF maximizing THEN score > best_score ELSE score < best_score

Gained(s, gain) ==
    IF gain THEN [s EXCEPT !.Analytics.OrderingGains = @ + 1] ELSE s

\* The root loop of _SearchDepth: [s, move, score]
RECURSIVE root_loop(_, _, _, _, _, _, _, _, _, _, _, _)

\* The body of the root loop after the value function returned r for moves[idx].
root_fold(self, deadline, r, bd, moves, idx, maximizing, depth, alpha, beta, best_score, best_move) ==
    LET new == better(maximizing, r.val, best_score)
        score == IF new THEN r.val ELSE best_score
        move == IF new THEN Some(moves[idx]) ELSE best_move
        s1 == Gained(r.s, new /\ idx > 1)
    IN  IF Expired(s1, deadline)
        THEN [s |-> Tick(s1), move |-> move, score |-> score]
        ELSE root_loop(self, deadline, Tick(s1), bd, moves, idx + 1, maximizing, depth,
                       IF maximizing THEN Max(alpha, score) ELSE alpha,
                       IF maximizing THEN beta ELSE Min(beta, score),
                       score, move)

\* root_value searching depth plies below the root move instead of depth - 1.
root_value_full_depth(self, deadline, s, clone, maximizing, depth, alpha, beta) ==
    IF maximizing THEN min_value(self, deadline, s, clone, depth, alpha, beta)
    ELSE max_value(self, deadline, s, clone, depth, alpha, beta)

root_value(self, deadline, s, clone, maximizing, depth, alpha, beta) ==
    IF maximizing THEN min_value(self, deadline, s, clone, depth - 1, alpha, beta)
    ELSE max_value(self, deadline, s, clone, depth - 1, alpha, beta)

root_loop(self, deadline, s, bd, moves, idx, maximizing, depth, alpha, beta, best_score, best_move) ==
    IF idx > Len(moves) THEN [s |-> s, move |-> best_move, score |-> best_score]
    ELSE root_fold(self, deadline,
                   root_value(self, deadline, s, ApplyMove(Clone(bd), moves[idx]),
                              maximizing, depth, alpha, beta),
                   bd, moves, idx, maximizing, depth, alpha, beta, best_score, best_move)

\* The end of _SearchDepth; ElapsedMs grows by the clock reads made since
\* start, the model's measure of the time the depth took.
search_result(start, r, bd) ==
    [s |-> [r.s EXCEPT !.Analytics.ElapsedMs = @ + (r.s.polls - start)],
     move |-> r.move, score |-> Some(r.score), board |-> bd]

search_ordered(self, deadline, start, o, bd, side, depth) ==
    search_result(start,
                  root_loop(self, deadline, o.s, bd, o.moves, 1, side = "b", depth,
                            0 - Inf, Inf, IF side = "b" THEN 0 - Inf ELSE Inf, None),
                  bd)

search_moves(self, deadline, s, am, side, depth) ==
    IF Len(am.moves) = 0
    THEN [s |-> s, move |-> None, score |-> None, board |-> am.board]
    ELSE search_ordered(self, deadline, s.polls,
                        _OrderMoves(self, s, am.board, side, am.moves),
                        am.board, side, depth)

\* _SearchDepth: [s, move, score, board]
_SearchDepth(self, deadline, s, bd, side, depth) ==
    search_moves(self, deadline, s, AllLegalMoves(bd, side), side, depth)

\* The iterative deepening loop of ChooseMove: [s, best_move, best_score,
\* board, completed, started, discarded]; completed is the deepest depth
\* after whose search the deadline was found not expired, started the
\* deepest depth whose search was begun, discarded the move of the depth
\* the loop left on its break.
RECURSIVE deepening(_, _, _, _, _, _, _, _, _, _)

\* deepened with the result of the depth taken before the deadline is read.
deepened_keeps_partial(self, deadline, r, side, depth, last, best_move, best_score, completed) ==
    IF Expired(r.s, deadline)
    THEN [s |-> Tick(r.s),
          best_move |-> IF r.move # None THEN r.move ELSE best_move,
          best_score |-> IF r.move # None THEN r.score ELSE best_score,
          board |-> r.board, completed |-> completed, started |-> depth,
          discarded |-> None]
    ELSE IF r.move # None
         THEN deepening(self, deadline, Tick(r.s), r.board, side, depth + 1, last,
                        r.move, r.score, depth)
         ELSE deepening(self, deadline, Tick(r.s), r.board, side, depth + 1, last,
                        best_move, best_score, depth)

\* The body of the loop after _SearchDepth returned r for depth.
deepened(self, deadline, r, side, depth, last, best_move, best_score, completed) ==
    IF Expired(r.s, deadline)
    THEN [s |-> Tick(r.s), best_move |-> best_move, best_score |-> best_score,
          board |-> r.board, completed |-> completed, started |-> depth,
          discarded |-> r.move]
    ELSE IF r.move # None
         THEN deepening(self, deadline, Tick(r.s), r.board, side, depth + 1, last,
                        r.move, r.score, depth)
         ELSE deepening(self, deadline, Tick(r.s), r.board, side, depth + 1, last,
                        best_move, best_score, depth)

deepening(self, deadline, s, bd, side, depth, last, best_move, best_score, completed) ==
    IF depth > last
    THEN [s |-> s, best_move |-> best_move, best_score |-> best_score,
          board |-> bd, completed |-> completed, started |-> last, discarded |-> None]
    ELSE deepened(self, deadline, _SearchDepth(self, deadline, s, bd, side, depth),
                  side, depth, last, best_move, best_score, completed)

chosen(r, move, bd) ==
    [move |-> move, board |-> bd, Analytics |-> r.s.Analytics, score |-> r.best_score,
     completed |-> r.completed, started |-> r.started, discarded |-> r.discarded,
     polls |-> r.s.polls]

\* first_move without the fallback to the first legal move.
first_move_none(r, am) == chosen(r, None, am.board)

\* moves = board.AllLegalMoves(side); return moves[0] if moves else None
first_move(r, am) ==
    chosen(r, IF Len(am.moves) > 0 THEN Some(am.moves[1]) ELSE None, am.board)

returned_move(r, side) ==
    IF r.best_move = None THEN first_move(r, AllLegalMoves(r.board, side))
    ELSE chosen(r, r.best_move, r.board)

\* self.Analytics = MoveAnalytics() at the start of ChooseMove: the counters
\* the call starts from.
reset_Analytics(self) == MoveAnalytics

\* ChooseMove: [move, board, Analytics, score, completed, started, discarded, polls];
\* move is None or Some(m), board is the caller's board after the call.
ChooseMove(self, deadline, bd, side, PlyLimit) ==
    returned_move(deepening(self, deadline, [polls |-> 0, Analytics |-> reset_Analytics(self)],
                            bd, side, 1, Max(1, PlyLimit), None, None, 0),
                  side)

(***************************************************************************)
(* Positions of the rules engine: every board with at most MaxPieces       *)
(* pieces on the dark cells of the three leftmost columns, every board     *)
(* with one piece on a dark cell, the constructor's board, and boards      *)
(* with longer capture chains.                                             *)
(***************************************************************************)
RECURSIVE Place(_, _, _)
Place(bd, ps, i) ==
    IF i > Len(ps) THEN bd ELSE Place(SetPiece(bd, ps[i][1], ps[i][2]), ps, i + 1)

\* The board set up by SetPiece calls on an empty board.
Setup(ps) == Place(EmptyBoard, ps, 1)

MaxPieces == 2

DarkCells == {rc \in Coordinate : (rc[1] + rc[2]) % 2 = 1}

\* A man never stands on the rank where it is promoted.
Placeable == {x \in DarkCells \X {"w", "W", "b", "B"} :
                 ~(x[2] = "w" /\ x[1][1] = 0) /\ ~(x[2] = "b" /\ x[1][1] = size - 1)}

Window == {x \in Placeable : x[1][2] <= 2}

CellIndex(rc) == rc[1] * size + rc[2]

Placements(n) ==
    {ps \in [1..n -> Window] :
        \A i \in 1..(n - 1) : CellIndex(ps[i][1]) < CellIndex(ps[i + 1][1])}

WindowPositions == {Setup(ps) : ps \in UNION {Placements(n) : n \in 0..MaxPieces}}

SinglePositions == {Setup(<<x>>) : x \in Placeable}

\* A white man promoted in the middle of a chain that goes on as a king.
WhitePromotionChain ==
    Setup(<< <<<<2, 1>>, "w">>, <<<<1, 2>>, "b">>, <<<<1, 4>>, "b">> >>)

\* A black man promoted in the middle of a chain that goes on as a king.
BlackPromotionChain ==
    Setup(<< <<<<5, 4>>, "b">>, <<<<6, 3>>, "w">>, <<<<6, 1>>, "w">> >>)

\* A white king whose chains of four jumps return to the start cell.
KingCycle ==
    Setup(<< <<<<4, 3>>, "W">>, <<<<3, 2>>, "b">>, <<<<1, 2>>, "b">>,
             <<<<1, 4>>, "b">>, <<<<3, 4>>, "b">> >>)

\* A black king with jumps to the upper left and to the upper right.
BlackKingJumps ==
    Setup(<< <<<<5, 2>>, "B">>, <<<<4, 3>>, "w">>, <<<<4, 1>>, "w">>,
             <<<<2, 3>>, "w">>, <<<<2, 1>>, "W">> >>)

\* A black man with two chains of two jumps and a second man with a quiet move.
BranchingChains ==
    Setup(<< <<<<1, 4>>, "b">>, <<<<2, 3>>, "w">>, <<<<2, 5>>, "w">>,
             <<<<4, 1>>, "w">>, <<<<4, 7>>, "W">>, <<<<0, 1>>, "b">> >>)

\* Pieces next to the right edge and the lower edge.
RightEdge ==
    Setup(<< <<<<3, 6>>, "w">>, <<<<2, 7>>, "b">>, <<<<6, 7>>, "B">>, <<<<7, 6>>, "W">> >>)

\* A black man that cannot move, and a free white man.
BlockedPosition ==
    Setup(<< <<<<3, 0>>, "b">>, <<<<4, 1>>, "w">>, <<<<5, 2>>, "w">>, <<<<6, 5>>, "w">> >>)

Scenarios ==
    {_InitialBoard, WhitePromotionChain, BlackPromotionChain, KingCycle,
     BlackKingJumps, BranchingChains, RightEdge, BlockedPosition}

Positions == WindowPositions \cup SinglePositions \cup Scenarios

Init ==
    /\ Board \in Positions
    /\ op = "init"
    /\ arg = <<>>
    /\ pre = Board
    /\ ret = <<>>
    /\ nmoves = 0
    /\ Heap = <<>>
    /\ Refs = <<>>

\* The state after an operation that returned result on the board it left.
Returned(name, a, bd, result) ==
    /\ Board' = bd
    /\ op' = name
    /\ arg' = a
    /\ pre' = Board
    /\ ret' = result
    /\ UNCHANGED <<nmoves, Heap, Refs>>

Called(name, a, r) == Returned(name, a, r.board, r.moves)

\* board.AllLegalMoves(side) on a position
DoAllLegalMoves(side) ==
    /\ op = "init"
    /\ Called("AllLegalMoves", [side |-> side], AllLegalMoves(Board, side))

Applied(side, r) ==
    \E i \in 1..Len(r.moves) :
        /\ Board' = ApplyMove(r.board, r.moves[i])
        /\ op' = "ApplyMove"
        /\ arg' = [side |-> side, move |-> r.moves[i]]
        /\ pre' = Board
        /\ ret' = <<>>
        /\ nmoves' = nmoves + 1
        /\ UNCHANGED <<Heap, Refs>>

\* board.ApplyMove(m) for a move m of board.AllLegalMoves(side)
DoApplyMove(side) ==
    /\ op = "init"
    /\ Applied(side, AllLegalMoves(Board, side))

Tested(r) == Returned("IsTerminal", <<>>, r.board, r.result)

\* board.IsTerminal() on a position
DoIsTerminal ==
    /\ op = "init"
    /\ Tested(IsTerminal(Board))

\* HeuristicScore(board) on a position
DoHeuristicScore ==
    /\ op = "init"
    /\ Returned("HeuristicScore", <<>>, Board, HeuristicScore(Board))

Next ==
    \/ \E side \in Sides : DoAllLegalMoves(side)
    \/ \E side \in Sides : DoApplyMove(side)
    \/ DoIsTerminal
    \/ DoHeuristicScore

Spec == Init /\ [][Next]_vars

(***************************************************************************)
(* The rules of the game as the specification states them, for the         *)
(* properties below.                                                       *)
(***************************************************************************)
FourDirections == { <<-1, -1>>, <<-1, 1>>, <<1, -1>>, <<1, 1>> }

\* A man moves forward only (White up, Black down), a king in all four.
RuleDirections(piece) ==
    IF piece = "w" THEN { <<-1, -1>>, <<-1, 1>> }
    ELSE IF piece = "b" THEN { <<1, -1>>, <<1, 1>> }
    ELSE FourDirections

SideOf(piece) == IF piece \in {"w", "W"} THEN "w" ELSE "b"

\* The piece `piece` of `side` standing on rc can jump in direction d: over a
\* diagonally adjacent opponent piece into the empty cell beyond it.
JumpFrom(bd, side, piece, rc, d) ==
    /\ Inside(rc[1] + 2 * d[1], rc[2] + 2 * d[2])
    /\ At(bd, rc[1] + 2 * d[1], rc[2] + 2 * d[2]) = "."
    /\ At(bd, rc[1] + d[1], rc[2] + d[2]) \in (IF side = "w" THEN {"b", "B"} ELSE {"w", "W"})

HasCapture(bd, side) ==
    \E rc \in Coordinate :
        /\ At(bd, rc[1], rc[2]) # "."
        /\ SideOf(At(bd, rc[1], rc[2])) = side
        /\ \E d \in RuleDirections(At(bd, rc[1], rc[2])) :
              JumpFrom(bd, side, At(bd, rc[1], rc[2]), rc, d)

\* C1: whenever a piece of the side has a capture, every move AllLegalMoves
\* returns is a capture, and the list never mixes captures and quiet moves.
C1_MandatoryCapture ==
    op = "AllLegalMoves" =>
        /\ HasCapture(pre, arg.side) => \A i \in 1..Len(ret) : ret[i].is_capture
        /\ \A i, j \in 1..Len(ret) : ret[i].is_capture = ret[j].is_capture

\* The rank the mover holds after the jumps of path, promoted on the landing
\* that reaches its back rank.
RECURSIVE RankAfter(_, _, _, _)
RankAfter(side, piece, path, i) ==
    IF i > Len(path) THEN piece
    ELSE RankAfter(side,
                   IF side = "w" /\ piece = "w" /\ path[i][1] = 0 THEN "W"
                   ELSE IF side = "b" /\ piece = "b" /\ path[i][1] = size - 1 THEN "B"
                   ELSE piece,
                   path, i + 1)

RECURSIVE Removed(_, _, _)
Removed(bd, cells, i) ==
    IF i > Len(cells) THEN bd
    ELSE Removed(Put(bd, cells[i][1], cells[i][2], "."), cells, i + 1)

\* The position after all jumps of the chain m played by `side` on bd.
AfterChain(bd, side, m) ==
    Put(Removed(Put(bd, m.path[1][1], m.path[1][2], "."), m.captured, 1),
        m.TargetingMoveLocation[1], m.TargetingMoveLocation[2],
        RankAfter(side, At(bd, m.path[1][1], m.path[1][2]), m.path, 2))

NoRepeat(list) == \A i, j \in 1..Len(list) : list[i] = list[j] => i = j

\* C2: every capture move returned by AllLegalMoves is a maximal chain (after
\* its jumps the mover, with the rank it holds on landing, has no further
\* jump from the end cell) and captures no coordinate twice.
C2_MaximalChains ==
    op = "AllLegalMoves" =>
        \A i \in 1..Len(ret) :
            ret[i].is_capture =>
                /\ NoRepeat(ret[i].captured)
                /\ LET after == AfterChain(pre, arg.side, ret[i])
                       e == ret[i].TargetingMoveLocation
                   IN  \A d \in RuleDirections(At(after, e[1], e[2])) :
                           ~JumpFrom(after, arg.side, At(after, e[1], e[2]), e, d)

SeqRange(list) == {list[i] : i \in 1..Len(list)}

\* C3: a king of either colour moves in all four diagonal directions: with
\* no capture available, AllLegalMoves has a quiet move from a king of the
\* side to every diagonally adjacent empty cell of the board, and a jump a
\* king can make in any of the four directions starts a returned capture.
C3_KingDirections ==
    op = "AllLegalMoves" =>
        \A rc \in Coordinate, d \in FourDirections :
            At(pre, rc[1], rc[2]) = (IF arg.side = "w" THEN "W" ELSE "B") =>
                /\ (/\ ~HasCapture(pre, arg.side)
                    /\ Inside(rc[1] + d[1], rc[2] + d[2])
                    /\ At(pre, rc[1] + d[1], rc[2] + d[2]) = ".")
                   => \E i \in 1..Len(ret) :
                          /\ ~ret[i].is_capture
                          /\ ret[i].StartingMoveLocation = rc
                          /\ ret[i].TargetingMoveLocation = <<rc[1] + d[1], rc[2] + d[2]>>
                /\ JumpFrom(pre, arg.side, At(pre, rc[1], rc[2]), rc, d)
                   => \E i \in 1..Len(ret) :
                          /\ ret[i].is_capture
                          /\ ret[i].path[1] = rc
                          /\ ret[i].path[2] = <<rc[1] + 2 * d[1], rc[2] + 2 * d[2]>>

\* C4: after ApplyMove of a legal move the end cell holds the side's King
\* when a White man ends on row 0 or a Black man on row 7, and otherwise
\* exactly the piece that stood on the start cell.
C4_Promotion ==
    op = "ApplyMove" =>
        LET from == arg.move.StartingMoveLocation
            to == arg.move.TargetingMoveLocation
            piece == At(pre, from[1], from[2])
        IN  At(Board, to[1], to[2]) =
                (IF piece = "w" /\ to[1] = 0 THEN "W"
                 ELSE IF piece = "b" /\ to[1] = 7 THEN "B"
                 ELSE piece)

\* A Black man captured its way to row 7 and stands there as a King.
C4_Witness ==
    /\ op = "ApplyMove"
    /\ arg.move.is_capture
    /\ At(pre, arg.move.StartingMoveLocation[1], arg.move.StartingMoveLocation[2]) = "b"
    /\ arg.move.TargetingMoveLocation[1] = 7
    /\ At(Board, arg.move.TargetingMoveLocation[1], arg.move.TargetingMoveLocation[2]) = "B"

Count(bd, targets) ==
    Cardinality({rc \in Coordinate : At(bd, rc[1], rc[2]) \in targets})

\* C10: IsTerminal returns true exactly when White has no piece, or Black
\* has no piece, or AllLegalMoves is empty for White, or empty for Black.
C10_Terminal ==
    op = "IsTerminal" =>
        (ret <=> \/ Count(pre, {"w", "W"}) = 0
                 \/ Count(pre, {"b", "B"}) = 0
                 \/ AllLegalMoves(pre, "w").moves = <<>>
                 \/ AllLegalMoves(pre, "b").moves = <<>>)

\* Both sides have pieces and White can move, Black cannot: terminal.
C10_Witness ==
    /\ op = "IsTerminal"
    /\ ret
    /\ Count(pre, {"w", "W"}) > 0
    /\ Count(pre, {"b"}) > 0
    /\ Len(AllLegalMoves(pre, "w").moves) > 0
    /\ AllLegalMoves(pre, "b").moves = <<>>

(***************************************************************************)
(* The search engine: ChooseMove on a position, for every mode, side, ply  *)
(* limit up to MaxPly and every clock read up to MaxDeadline at which the  *)
(* deadline may be found expired first, or never.                          *)
(***************************************************************************)
MaxPly == 3

MaxDeadline == 30

Never == 10^9

Modes == {"minimax", "alpha-beta", "alpha-beta-ordering"}

Deadlines == (0..MaxDeadline) \cup {Never}

\* Two men a side, out of reach of each other.
OpenPosition ==
    Setup(<< <<<<1, 4>>, "b">>, <<<<2, 1>>, "b">>, <<<<5, 2>>, "w">>, <<<<5, 4>>, "w">> >>)

\* Men in contact: captures and recaptures within two plies.
ContactPosition ==
    Setup(<< <<<<2, 3>>, "b">>, <<<<3, 6>>, "b">>, <<<<4, 1>>, "w">>, <<<<5, 4>>, "w">> >>)

\* Kings and men about to be promoted.
KingPosition ==
    Setup(<< <<<<6, 1>>, "b">>, <<<<3, 4>>, "B">>, <<<<1, 2>>, "w">>, <<<<4, 5>>, "W">> >>)

\* White to lose its last piece.
LastPiece ==
    Setup(<< <<<<3, 2>>, "b">>, <<<<4, 3>>, "w">>, <<<<1, 6>>, "b">> >>)

\* A king listed before a man whose move scores higher.
KingAndMan ==
    Setup(<< <<<<1, 2>>, "B">>, <<<<3, 4>>, "b">>, <<<<6, 1>>, "W">>, <<<<5, 6>>, "w">> >>)

SearchPositions ==
    {OpenPosition, ContactPosition, BlockedPosition, KingPosition, LastPiece,
     WhitePromotionChain, BlackKingJumps, KingAndMan, EmptyBoard}

SearchInit ==
    /\ Board \in SearchPositions
    /\ op = "init"
    /\ arg = <<>>
    /\ pre = Board
    /\ ret = <<>>
    /\ nmoves = 0
    /\ Heap = <<>>
    /\ Refs = <<>>

Chose(a, r) == Returned("ChooseMove", a, r.board, r)

\* SearchToolBox(mode).ChooseMove(board, side, PlyLimit = PlyLimit)
DoChooseMove(mode, side, PlyLimit, deadline) ==
    /\ op = "init"
    /\ Chose([mode |-> mode, side |-> side, PlyLimit |-> PlyLimit, deadline |-> deadline],
             ChooseMove(SearchToolBox(mode), deadline, Board, side, PlyLimit))

SearchNext ==
    \E mode \in Modes, side \in Sides, PlyLimit \in 0..MaxPly, deadline \in Deadlines :
        DoChooseMove(mode, side, PlyLimit, deadline)

SpecSearch == SearchInit /\ [][SearchNext]_vars

\* C5: ChooseMove leaves the caller's board as it was before the call, for
\* every board, side, mode and ply limit, wherever the deadline expires.
C5_BoardPreserved == op = "ChooseMove" => Board = pre

\* The deadline expired during the second depth of a search over capture
\* chains, whose jumps are tried on the board in place.
C5_Witness ==
    /\ op = "ChooseMove"
    /\ arg.deadline < ret.polls
    /\ ret.started >= 2
    /\ ret.move # None
    /\ ret.move[1].is_capture
    /\ Len(ret.move[1].captured) >= 2
    /\ Board = pre

\* The search of one depth with a deadline that never expires.
FixedDepth(mode, bd, side, depth) ==
    _SearchDepth(SearchToolBox(mode), Never, [polls |-> 0, Analytics |-> MoveAnalytics],
                 bd, side, depth)

\* C6: for every position, side and depth, with no deadline expiry, the
\* alpha-beta search returns the root best score of the plain minimax search.
C6_SameRootScore ==
    (op = "ChooseMove" /\ arg.mode = "alpha-beta" /\ arg.deadline = Never) =>
        ret.score = FixedDepth("minimax", pre, arg.side, Max(1, arg.PlyLimit)).score

\* An alpha-beta search that pruned and found the minimax score.
C6_Witness ==
    /\ op = "ChooseMove"
    /\ arg.mode = "alpha-beta"
    /\ arg.deadline = Never
    /\ arg.PlyLimit >= 2
    /\ ret.Analytics.AlphaBetaCuts > 0
    /\ ret.score # None
    /\ ret.score = FixedDepth("minimax", pre, arg.side, arg.PlyLimit).score

\* C7: depths are searched in increasing order and ChooseMove returns the
\* best move of the deepest depth completed before the deadline expired; the
\* result of a depth cut short is never used and no deeper depth is started
\* after the expiry.
C7_DeepestCompleted ==
    op = "ChooseMove" =>
        /\ ret.started <= ret.completed + 1
        /\ ret.completed <= ret.started
        /\ ret.started <= Max(1, arg.PlyLimit)
        /\ ret.completed < Max(1, arg.PlyLimit) => arg.deadline < ret.polls
        /\ arg.deadline = Never => ret.completed = Max(1, arg.PlyLimit)
        /\ ret.completed = 0 => ret.score = None
        /\ ret.completed >= 1 =>
               /\ ret.score = FixedDepth(arg.mode, pre, arg.side, ret.completed).score
               /\ ret.score # None =>
                      ret.move = FixedDepth(arg.mode, pre, arg.side, ret.completed).move

\* The deadline expired during depth 2, whose partial result is another move
\* than the one depth 1 found and ChooseMove returned.
C7_Witness ==
    /\ op = "ChooseMove"
    /\ ret.completed = 1
    /\ ret.started = 2
    /\ ret.discarded # None
    /\ ret.discarded # ret.move
    /\ ret.move = FixedDepth(arg.mode, pre, arg.side, 1).move

\* C8: ChooseMove returns no move exactly when AllLegalMoves of the side is
\* empty, and otherwise an element of it: the first one when not even depth
\* 1 completed.
C8_ReturnedMove ==
    op = "ChooseMove" =>
        LET moves == AllLegalMoves(pre, arg.side).moves
        IN  /\ ret.move = None <=> moves = <<>>
            /\ ret.move # None => \E i \in 1..Len(moves) : ret.move[1] = moves[i]
            /\ (ret.completed = 0 /\ moves # <<>>) => ret.move = Some(moves[1])

\* Depth 1 did not complete and the first of several legal moves is returned.
C8_Witness ==
    /\ op = "ChooseMove"
    /\ ret.completed = 0
    /\ Len(AllLegalMoves(pre, arg.side).moves) >= 2
    /\ ret.move = Some(AllLegalMoves(pre, arg.side).moves[1])

SuccessorScores(bd, moves) ==
    {HeuristicScore(ApplyMove(bd, moves[i])) : i \in 1..Len(moves)}

BestOf(scores, side) ==
    CHOOSE v \in scores : \A u \in scores : IF side = "b" THEN v >= u ELSE v <= u

\* C9: at ply limit 1 with no deadline expiry the chosen score is the
\* greatest (Black) or least (White) HeuristicScore over the boards after
\* each legal move, and the returned move reaches it.
C9_OnePly ==
    (op = "ChooseMove" /\ arg.PlyLimit = 1 /\ arg.deadline = Never) =>
        LET moves == AllLegalMoves(pre, arg.side).moves
        IN  moves # <<>> =>
                /\ ret.score = Some(BestOf(SuccessorScores(pre, moves), arg.side))
                /\ HeuristicScore(ApplyMove(pre, ret.move[1]))
                       = BestOf(SuccessorScores(pre, moves), arg.side)

\* A one-ply search over moves of different scores whose best is not the
\* first legal move.
C9_Witness ==
    /\ op = "ChooseMove"
    /\ arg.PlyLimit = 1
    /\ arg.deadline = Never
    /\ ret.move # None
    /\ Cardinality(SuccessorScores(pre, AllLegalMoves(pre, arg.side).moves)) >= 2
    /\ ret.move # Some(AllLegalMoves(pre, arg.side).moves[1])
    /\ ret.score = Some(HeuristicScore(ApplyMove(pre, ret.move[1])))

(***************************************************************************)
(* A game: the constructor's board, or a position of a later stage set up  *)
(* on it with SetPiece, and then up to MaxMoves legal moves of either      *)
(* side in any order, each applied with ApplyMove.                         *)
(***************************************************************************)
MaxMoves == 4

GamePositions ==
    {WhitePromotionChain, BlackPromotionChain, KingCycle, BlackKingJumps,
     BranchingChains, RightEdge, KingPosition, ContactPosition, KingAndMan}

GameInit ==
    /\ Board = _InitialBoard
    /\ op = "init"
    /\ arg = <<>>
    /\ pre = Board
    /\ ret = <<>>
    /\ nmoves = 0
    /\ Heap = <<>>
    /\ Refs = <<>>

\* board.SetPiece((r, c), piece) for the cells of row r, from column c on,
\* that do not hold the piece of the target position.
RECURSIVE ArrangeCols(_, _, _, _)
ArrangeCols(bd, target, r, c) ==
    IF c >= size THEN bd
    ELSE IF PieceAt(bd, <<r, c>>) = At(target, r, c)
         THEN ArrangeCols(bd, target, r, c + 1)
         ELSE ArrangeCols(SetPiece(bd, <<r, c>>, At(target, r, c)), target, r, c + 1)

RECURSIVE ArrangeRows(_, _, _)
ArrangeRows(bd, target, r) ==
    IF r >= size THEN bd
    ELSE ArrangeRows(ArrangeCols(bd, target, r, 0), target, r + 1)

\* The new board turned into a position by SetPiece calls.
DoSetPieces ==
    /\ op = "init"
    /\ \E target \in GamePositions :
           Returned("SetPiece", [target |-> target], ArrangeRows(Board, target, 0), <<>>)

\* board.ApplyMove(m) for a move m of board.AllLegalMoves(side), in a game
DoMove(side) ==
    /\ nmoves < MaxMoves
    /\ Applied(side, AllLegalMoves(Board, side))

GameNext ==
    \/ DoSetPieces
    \/ \E side \in Sides : DoMove(side)

SpecGame == GameInit /\ [][GameNext]_vars

LightCells == {rc \in Coordinate : (rc[1] + rc[2]) % 2 = 0}

\* C11: in every board reached from the initial board by legal moves of
\* either side applied with ApplyMove, every cell with (row + col) even is
\* empty: pieces stand only on cells with (row + col) odd.
C11_LightCellsEmpty == \A rc \in LightCells : At(Board, rc[1], rc[2]) = "."

\* Three moves from the initial board, the last one a capture: 23 pieces
\* are left, one of them on the landing cell of the jump.
C11_Witness ==
    /\ op = "ApplyMove"
    /\ nmoves = 3
    /\ arg.move.is_capture
    /\ Cardinality({rc \in Coordinate : At(Board, rc[1], rc[2]) # "."}) = 23
    /\ At(Board, arg.move.TargetingMoveLocation[1], arg.move.TargetingMoveLocation[2]) # "."
    /\ \A rc \in LightCells : At(Board, rc[1], rc[2]) = "."

PiecesOf(side) == IF side = "w" THEN {"w", "W"} ELSE {"b", "B"}

\* C12: pieces are removed only by capture: ApplyMove of a legal move leaves
\* the number of pieces of the moving side unchanged and lowers the number of
\* pieces of the opponent by the number of captured cells of the move (0 for
\* a quiet move); each side has at most 12 pieces in every reachable state.
C12_RemovedOnlyByCapture ==
    /\ Count(Board, {"w", "W"}) <= 12
    /\ Count(Board, {"b", "B"}) <= 12
    /\ op = "ApplyMove" =>
           /\ Count(Board, PiecesOf(arg.side)) = Count(pre, PiecesOf(arg.side))
           /\ Count(Board, _Opponents(arg.side))
                  = Count(pre, _Opponents(arg.side)) - Len(arg.move.captured)
           /\ ~arg.move.is_capture => Len(arg.move.captured) = 0

\* A chain of several jumps was applied: the opponent lost that many pieces.
C12_Witness ==
    /\ op = "ApplyMove"
    /\ Len(arg.move.captured) >= 2
    /\ Count(Board, _Opponents(arg.side)) = Count(pre, _Opponents(arg.side)) - Len(arg.move.captured)
    /\ Count(Board, PiecesOf(arg.side)) = Count(pre, PiecesOf(arg.side))

Abs(x) == IF x < 0 THEN 0 - x ELSE x

\* b lies k cells from a along a diagonal.
DiagonalStep(a, b, k) == Abs(b[1] - a[1]) = k /\ Abs(b[2] - a[2]) = k

\* The record m has the shape of a quiet move or of a capture chain.
MoveShape(m) ==
    /\ m.is_capture = (Len(m.captured) > 0)
    /\ Len(m.path) >= 2
    /\ m.path[1] = m.StartingMoveLocation
    /\ m.path[Len(m.path)] = m.TargetingMoveLocation
    /\ ~m.is_capture => Len(m.path) = 2 /\ DiagonalStep(m.path[1], m.path[2], 1)
    /\ m.is_capture =>
           /\ Len(m.path) = Len(m.captured) + 1
           /\ \A k \in 1..Len(m.captured) :
                  /\ DiagonalStep(m.path[k], m.path[k + 1], 2)
                  /\ 2 * m.captured[k][1] = m.path[k][1] + m.path[k + 1][1]
                  /\ 2 * m.captured[k][2] = m.path[k][2] + m.path[k + 1][2]

\* C13: every move returned by AllLegalMoves has is_capture = (captured is
\* not empty), path[0] = start and path[-1] = end; a quiet move has a path of
\* two cells one diagonal step apart; a capture has one more path cell than
\* captured cells, each path step is a diagonal step of two cells and
\* captured[i] is the midpoint of path[i] and path[i+1].
C13_MoveRecords ==
    op = "AllLegalMoves" => \A i \in 1..Len(ret) : MoveShape(ret[i])

\* A returned chain of four jumps that ends on the cell where it started.
C13_Witness ==
    /\ op = "AllLegalMoves"
    /\ \E i \in 1..Len(ret) :
           /\ Len(ret[i].captured) = 4
           /\ ret[i].StartingMoveLocation = ret[i].TargetingMoveLocation
           /\ MoveShape(ret[i])

(***************************************************************************)
(* Clone and the row lists of two boards.  A GameBoard's board is a list   *)
(* of row lists; Heap is the sequence of the row lists allocated so far    *)
(* and a board is the sequence of the addresses of its rows.  Refs holds   *)
(* the rows of the original board and of its clone (<<>> before Clone).    *)
(***************************************************************************)
MaxOps == 2

\* The contents of the board whose rows are the row lists at rows.
Contents(heap, rows) == [i \in 1..Len(rows) |-> heap[rows[i]]]

\* The heap after the cells of the board at rows were written as in bd.
Stored(heap, rows, bd) ==
    [a \in 1..Len(heap) |->
        IF \E i \in 1..Len(rows) : rows[i] = a
        THEN bd[CHOOSE i \in 1..Len(rows) : rows[i] = a]
        ELSE heap[a]]

\* g = GameBoard() allocates the rows of an initial board; the list
\* comprehension of Clone then allocates one copy row[:] per row.
Clone_heap(heap, rows) == (heap \o _InitialBoard) \o Clone(Contents(heap, rows))

\* g.board made of the rows of the original instead of their copies.
g_board_shared(heap, rows) == rows

\* g.board: the addresses of the copied rows.
g_board(heap, rows) == [i \in 1..Len(rows) |-> Len(heap) + size + i]

ClonePositions == {_InitialBoard, KingCycle, ContactPosition, WhitePromotionChain}

SetCells == {<<3, 2>>, <<4, 5>>}

SetPieces == {"w", "."}

Boards == {"original", "clone"}

CloneInit ==
    /\ Board \in ClonePositions
    /\ Heap = Board
    /\ Refs = [original |-> [i \in 1..size |-> i], clone |-> <<>>]
    /\ op = "init"
    /\ arg = <<>>
    /\ pre = [original |-> Board, clone |-> <<>>]
    /\ ret = [original |-> <<>>, clone |-> <<>>]
    /\ nmoves = 0

\* clone = original.Clone()
DoClone ==
    /\ Refs.clone = <<>>
    /\ Heap' = Clone_heap(Heap, Refs.original)
    /\ Refs' = [Refs EXCEPT !.clone = g_board(Heap, Refs.original)]
    /\ Board' = Contents(Heap', Refs.original)
    /\ op' = "Clone"
    /\ arg' = <<>>
    /\ pre' = [original |-> Board, clone |-> <<>>]
    /\ ret' = [original |-> <<>>, clone |-> <<>>]
    /\ UNCHANGED nmoves

\* An operation on one of the two boards wrote bd into that board's rows.
\* detail is the operation's argument, [move, set]: the move of an ApplyMove
\* in move, or the cell and the piece of a SetPiece in set.
Operated(target, name, detail, bd) ==
    /\ Heap' = Stored(Heap, Refs[target], bd)
    /\ Board' = Contents(Heap', Refs.original)
    /\ op' = name
    /\ arg' = [target |-> target, detail |-> detail]
    /\ pre' = [original |-> Contents(Heap, Refs.original), clone |-> Contents(Heap, Refs.clone)]
    /\ ret' = [ret EXCEPT ![target] = Append(@, detail)]
    /\ nmoves' = nmoves + 1
    /\ UNCHANGED Refs

DoSetPieceOn(target) ==
    /\ nmoves < MaxOps
    /\ Refs[target] # <<>>
    /\ \E rc \in SetCells, piece \in SetPieces :
          Operated(target, "SetPiece", [move |-> <<>>, set |-> <<rc, piece>>],
                   SetPiece(Contents(Heap, Refs[target]), rc, piece))

\* One of the moves r.moves that AllLegalMoves returned is applied to the
\* board r.board it left behind.
AppliedOn(target, r) ==
    \E i \in 1..Len(r.moves) :
        Operated(target, "ApplyMove", [move |-> <<r.moves[i]>>, set |-> <<>>],
                 ApplyMove(r.board, r.moves[i]))

DoApplyMoveOn(target) ==
    /\ nmoves < MaxOps
    /\ Refs[target] # <<>>
    /\ \E side \in Sides :
          AppliedOn(target, AllLegalMoves(Contents(Heap, Refs[target]), side))

CloneNext ==
    \/ DoClone
    \/ \E target \in Boards : DoSetPieceOn(target)
    \/ \E target \in Boards : DoApplyMoveOn(target)

SpecClone == CloneInit /\ [][CloneNext]_vars

Other(target) == IF target = "clone" THEN "original" ELSE "clone"

\* C14: Clone() gives an independent copy: at the time of the clone the 64
\* cells of the clone equal those of the original (which Clone leaves as it
\* was); after the same sequence of SetPiece and ApplyMove operations on
\* both, the two boards have identical contents; an operation on one of
\* the two boards leaves every cell of the other unchanged.
C14_CloneIndependent ==
    /\ op = "Clone" =>
           /\ \A rc \in Coordinate :
                  PieceAt(Contents(Heap, Refs.clone), rc) = PieceAt(Contents(Heap, Refs.original), rc)
           /\ Contents(Heap, Refs.original) = pre.original
    /\ (Refs.clone # <<>> /\ ret.original = ret.clone) =>
           Contents(Heap, Refs.clone) = Contents(Heap, Refs.original)
    /\ (op \in {"SetPiece", "ApplyMove"} /\ Refs.clone # <<>>) =>
           \A rc \in Coordinate :
               PieceAt(Contents(Heap, Refs[Other(arg.target)]), rc) = PieceAt(pre[Other(arg.target)], rc)

\* A capture was applied to the original and then to the clone: the second
\* application changed the clone, left the original as it was, and the two
\* boards are equal again.
C14_Witness ==
    /\ op = "ApplyMove"
    /\ arg.target = "clone"
    /\ arg.detail.move[1].is_capture
    /\ ret.original = <<arg.detail>>
    /\ ret.clone = <<arg.detail>>
    /\ Contents(Heap, Refs.clone) # pre.clone
    /\ Contents(Heap, Refs.original) = pre.original
    /\ Contents(Heap, Refs.clone) = Contents(Heap, Refs.original)

\* The moves of side on bd in the order _OrderMoves gives them.
OrderedMoves(bd, side) ==
    _OrderMoves(SearchToolBox("alpha-beta-ordering"), [polls |-> 0, Analytics |-> MoveAnalytics],
                bd, side, AllLegalMoves(bd, side).moves).moves

\* C15: move ordering does not change the value of the search: at a fixed
\* depth and with no deadline expiry, the root best score of the mode
\* 'alpha-beta-ordering' equals that of 'alpha-beta' and that of 'minimax'.
C15_OrderingSameScore ==
    (op = "ChooseMove" /\ arg.mode = "alpha-beta-ordering" /\ arg.deadline = Never) =>
        /\ ret.score = FixedDepth("alpha-beta", pre, arg.side, Max(1, arg.PlyLimit)).score
        /\ ret.score = FixedDepth("minimax", pre, arg.side, Max(1, arg.PlyLimit)).score

\* A search of depth two or more in which the ordering moved the root moves,
\* the search pruned, and the score is that of the two other modes.
C15_Witness ==
    /\ op = "ChooseMove"
    /\ arg.mode = "alpha-beta-ordering"
    /\ arg.deadline = Never
    /\ arg.PlyLimit >= 2
    /\ ret.score # None
    /\ ret.Analytics.OrderingComparisons > 0
    /\ ret.Analytics.AlphaBetaCuts > 0
    /\ OrderedMoves(pre, arg.side) # AllLegalMoves(pre, arg.side).moves
    /\ ret.score = FixedDepth("alpha-beta", pre, arg.side, arg.PlyLimit).score
    /\ ret.score = FixedDepth("minimax", pre, arg.side, arg.PlyLimit).score

\* C16: from the initial board AllLegalMoves('b') returns exactly 7 moves,
\* all of them quiet.
C16_SevenOpeningMoves ==
    (op = "AllLegalMoves" /\ pre = _InitialBoard /\ arg.side = "b") =>
        /\ Len(ret) = 7
        /\ \A i \in 1..Len(ret) : ~ret[i].is_capture /\ Len(ret[i].captured) = 0

\* The seven moves of Black on the initial board, the single move of the
\* man on the right edge among them.
C16_Witness ==
    /\ op = "AllLegalMoves"
    /\ pre = _InitialBoard
    /\ arg.side = "b"
    /\ Len(ret) = 7
    /\ \E i \in 1..Len(ret) :
           ret[i].StartingMoveLocation = <<2, 7>> /\ ret[i].TargetingMoveLocation = <<3, 6>>
    /\ \A i \in 1..Len(ret) : ret[i].StartingMoveLocation[1] = 2 /\ ~ret[i].is_capture

\* The value of row r of bd as the specification states it.
RowValue(bd, r) ==
    (3 + r) * Cardinality({c \in 0..7 : At(bd, r, c) = "b"})
    + 5 * Cardinality({c \in 0..7 : At(bd, r, c) = "B"})
    - (3 + (7 - r)) * Cardinality({c \in 0..7 : At(bd, r, c) = "w"})
    - 5 * Cardinality({c \in 0..7 : At(bd, r, c) = "W"})

RECURSIVE SumRows(_, _)
SumRows(bd, r) == IF r > 7 THEN 0 ELSE RowValue(bd, r) + SumRows(bd, r + 1)

\* C20: HeuristicScore is the sum over the 64 cells of 3 + row for a black
\* man, 5 for a black king, -(3 + (7 - row)) for a white man, -5 for a white
\* king and 0 for an empty cell, and it does not modify the board.
C20_HeuristicSum ==
    op = "HeuristicScore" => ret = SumRows(pre, 0) /\ Board = pre

\* The score of a board with a man and a king whose values differ in sign.
C20_Witness ==
    /\ op = "HeuristicScore"
    /\ Count(pre, {"w"}) >= 1
    /\ Count(pre, {"B"}) >= 1
    /\ ret = SumRows(pre, 0)
    /\ ret < 0
    /\ Board = pre

\* C17: a new board holds exactly 12 Black men, on the cells of rows 0 to 2
\* with row + col odd, and 12 White men, on the cells of rows 5 to 7 with
\* row + col odd; every other cell is empty and there is no king.
C17_NewBoard ==
    op = "init" =>
        /\ \A rc \in Coordinate :
               At(Board, rc[1], rc[2]) =
                   IF (rc[1] + rc[2]) % 2 = 1 /\ rc[1] \in 0..2 THEN "b"
                   ELSE IF (rc[1] + rc[2]) % 2 = 1 /\ rc[1] \in 5..7 THEN "w"
                   ELSE "."
        /\ Count(Board, {"b"}) = 12
        /\ Count(Board, {"w"}) = 12
        /\ Count(Board, {"B", "W"}) = 0
        /\ Count(Board, {"."}) = 40

\* The board of the constructor, before any SetPiece or ApplyMove.
C17_Witness ==
    /\ op = "init"
    /\ nmoves = 0
    /\ Count(Board, {"b"}) = 12
    /\ Count(Board, {"w"}) = 12
    /\ At(Board, 0, 1) = "b"
    /\ At(Board, 2, 7) = "b"
    /\ At(Board, 5, 0) = "w"
    /\ At(Board, 7, 6) = "w"
    /\ At(Board, 3, 0) = "."
    /\ At(Board, 4, 7) = "."

Turn(side) == IF side = "b" THEN "w" ELSE "b"

\* The nodes of the game tree of d plies below bd with side to move, no
\* sibling left out: the node itself and, unless it is a leaf, the trees
\* below its moves.
RECURSIVE FullNodes(_, _, _)
RECURSIVE FullChildren(_, _, _, _, _)
FullNodes(bd, side, d) ==
    IF d = 0 \/ IsTerminal(bd).result THEN 1
    ELSE 1 + FullChildren(bd, side, AllLegalMoves(bd, side).moves, 1, d)

FullChildren(bd, side, moves, i, d) ==
    IF i > Len(moves) THEN 0
    ELSE FullNodes(ApplyMove(bd, moves[i]), Turn(side), d - 1)
         + FullChildren(bd, side, moves, i + 1, d)

\* The nodes below the root over the depths depth..last of the deepening.
RECURSIVE FullSearches(_, _, _, _)
FullSearches(bd, side, depth, last) ==
    IF depth > last THEN 0
    ELSE FullChildren(bd, side, AllLegalMoves(bd, side).moves, 1, depth)
         + FullSearches(bd, side, depth + 1, last)

\* C19: the mode fixes the features of the search.  In 'minimax' no sibling
\* is skipped (with no deadline expiry every node of the tree is expanded)
\* and AlphaBetaCuts and OrderingComparisons stay 0; in 'alpha-beta' pruning
\* is on and OrderingComparisons stays 0; in 'alpha-beta-ordering' pruning
\* and ordering are both on (the moves of the root are ordered).
C19_ModeFeatures ==
    op = "ChooseMove" =>
        /\ arg.mode = "minimax" =>
               /\ ~SearchToolBox(arg.mode).UseAlphaBeta
               /\ ~SearchToolBox(arg.mode).UseOrdering
               /\ ret.Analytics.AlphaBetaCuts = 0
               /\ ret.Analytics.OrderingComparisons = 0
               /\ arg.deadline = Never =>
                      ret.Analytics.NodesExpanded
                          = FullSearches(pre, arg.side, 1, Max(1, arg.PlyLimit))
        /\ arg.mode = "alpha-beta" =>
               /\ SearchToolBox(arg.mode).UseAlphaBeta
               /\ ~SearchToolBox(arg.mode).UseOrdering
               /\ ret.Analytics.OrderingComparisons = 0
        /\ arg.mode = "alpha-beta-ordering" =>
               /\ SearchToolBox(arg.mode).UseAlphaBeta
               /\ SearchToolBox(arg.mode).UseOrdering
               /\ ret.Analytics.OrderingComparisons
                      >= Max(0, Len(AllLegalMoves(pre, arg.side).moves) - 1)

\* A minimax search of three plies that expanded every node of the tree,
\* more nodes than the alpha-beta search of the same position, which pruned.
C19_Witness ==
    /\ op = "ChooseMove"
    /\ arg.mode = "minimax"
    /\ arg.deadline = Never
    /\ arg.PlyLimit = 3
    /\ ret.Analytics.AlphaBetaCuts = 0
    /\ ret.Analytics.OrderingComparisons = 0
    /\ ret.Analytics.NodesExpanded = FullSearches(pre, arg.side, 1, 3)
    /\ ChooseMove(SearchToolBox("alpha-beta"), Never, pre, arg.side, 3).Analytics.AlphaBetaCuts > 0
    /\ ChooseMove(SearchToolBox("alpha-beta"), Never, pre, arg.side, 3).Analytics.NodesExpanded
           < ret.Analytics.NodesExpanded

(***************************************************************************)
(* A game of PlayingTheGame from the constructor's board or from a         *)
(* position of a later stage set up on the board: White's turns and the    *)
(* bot's turns alternate until IsTerminal ends the loop of Play.  Heap is  *)
(* the sequence of the MoveAnalytics objects allocated so far; Refs holds  *)
(* the fields of the                                                       *)
(* game: the mode and the ply limit of the bot, the address of the object  *)
(* bound to Bot.Analytics, and the addresses in WhiteStats.PerMove and in  *)
(* BlackStats.PerMove.                                                     *)
(***************************************************************************)
MaxTurns == 4

\* White to take the last piece of Black.
LastBlackPiece == Setup(<< <<<<4, 3>>, "w">>, <<<<3, 2>>, "b">>, <<<<6, 5>>, "w">> >>)

SessionPositions ==
    {_InitialBoard, OpenPosition, ContactPosition, KingAndMan, LastPiece, LastBlackPiece}

SessionPlies == 1..2

SessionDeadlines == {0, 4, Never}

Elapsed == {7}

SessionInit ==
    /\ Board \in SessionPositions
    /\ Heap = <<MoveAnalytics>>
    /\ \E mode \in Modes, PlyLimit \in SessionPlies :
          Refs = [mode |-> mode, PlyLimit |-> PlyLimit, Analytics |-> 1,
                  WhiteStats |-> <<>>, BlackStats |-> <<>>]
    /\ op = "init"
    /\ arg = <<>>
    /\ pre = [Board |-> Board, Heap |-> Heap, Refs |-> Refs]
    /\ ret = <<>>
    /\ nmoves = 0

\* self of a call on the bot: the toolbox with the counters of the object
\* bound to its Analytics.
Bot(heap, refs) == [SearchToolBox(refs.mode) EXCEPT !.Analytics = heap[refs.Analytics]]

\* The object ChooseMove binds to self.Analytics, the one it was bound to
\* before instead of a new one.
new_Analytics_in_place(heap, refs) == refs.Analytics

\* The object ChooseMove binds to self.Analytics: a new one.
new_Analytics(heap, refs) == Len(heap) + 1

\* The heap after the counters of the object at address a became analytics.
Counted(heap, a, analytics) ==
    IF a > Len(heap) THEN Append(heap, analytics) ELSE [heap EXCEPT ![a] = analytics]

\* The game after a turn: the board, the heap and the fields it left.
Turned(name, a, bd, heap, refs) ==
    /\ Board' = bd
    /\ Heap' = heap
    /\ Refs' = refs
    /\ op' = name
    /\ arg' = a
    /\ pre' = [Board |-> Board, Heap |-> Heap, Refs |-> Refs]
    /\ ret' = <<>>
    /\ nmoves' = nmoves + 1

\* HumanTurn with the move r.moves[i] entered: the move is applied and a new
\* MoveAnalytics(ElapsedMs = elapsed) is added to WhiteStats.
HumanMoved(r, elapsed) ==
    \E i \in 1..Len(r.moves) :
        Turned("HumanTurn", [move |-> r.moves[i], deadline |-> Never],
               ApplyMove(r.board, r.moves[i]),
               Append(Heap, [MoveAnalytics EXCEPT !.ElapsedMs = elapsed]),
               [Refs EXCEPT !.WhiteStats = Append(@, Len(Heap) + 1)])

\* The tests of the loop of Play: if self.Board.IsTerminal(): break, before
\* the turn of the human and before the turn of the bot.
human_to_move(bd) == ~IsTerminal(bd).result

\* bot_to_move without the test of IsTerminal.
bot_to_move_untested(bd) == TRUE

bot_to_move(bd) == ~IsTerminal(bd).result

\* The loop of Play is left: op is "GameOver" after a break on IsTerminal,
\* "NoMove" after BotTurn returned False.
Left(name, a, heap, refs) ==
    /\ Board' = Board
    /\ Heap' = heap
    /\ Refs' = refs
    /\ op' = name
    /\ arg' = a
    /\ pre' = [Board |-> Board, Heap |-> Heap, Refs |-> Refs]
    /\ ret' = <<>>
    /\ nmoves' = nmoves

DoHumanTurn ==
    /\ op \in {"init", "BotTurn"}
    /\ nmoves < MaxTurns
    /\ human_to_move(Board)
    /\ \E elapsed \in Elapsed : HumanMoved(AllLegalMoves(Board, "w"), elapsed)

\* BotTurn after ChooseMove returned r with its counters in the object at a:
\* with no move BotTurn returns False and Play leaves its loop; otherwise
\* the move is applied and Bot.Analytics is added to BlackStats.
BotMoved(deadline, r, a) ==
    IF r.move = None
    THEN Left("NoMove", [move |-> None, deadline |-> deadline],
              Counted(Heap, a, r.Analytics), [Refs EXCEPT !.Analytics = a])
    ELSE Turned("BotTurn", [move |-> r.move[1], deadline |-> deadline],
                ApplyMove(r.board, r.move[1]),
                Counted(Heap, a, r.Analytics),
                [Refs EXCEPT !.Analytics = a, !.BlackStats = Append(@, a)])

DoBotTurn ==
    /\ op = "HumanTurn"
    /\ nmoves < MaxTurns
    /\ bot_to_move(Board)
    /\ \E deadline \in SessionDeadlines :
          BotMoved(deadline,
                   ChooseMove(Bot(Heap, Refs), deadline, Board, "b", Refs.PlyLimit),
                   new_Analytics(Heap, Refs))

\* if self.Board.IsTerminal(): break
DoGameOver ==
    /\ \/ op \in {"init", "BotTurn"} /\ ~human_to_move(Board)
       \/ op = "HumanTurn" /\ ~bot_to_move(Board)
    /\ Left("GameOver", [move |-> None, deadline |-> Never], Heap, Refs)

SessionNext == DoHumanTurn \/ DoBotTurn \/ DoGameOver

SpecSession == SessionInit /\ [][SessionNext]_vars

\* C18: the analytics are per call.  The counters are reset to zero at the
\* start of every ChooseMove, so the record the toolbox exposes after a call
\* counts the events of that call only: it is the record a new toolbox
\* exposes after the same call.  A record handed to the caller earlier (the
\* records in PerMove) is not changed by a later ChooseMove.
C18_AnalyticsPerCall ==
    op = "BotTurn" =>
        /\ Heap[Refs.Analytics]
               = ChooseMove(SearchToolBox(Refs.mode), arg.deadline, pre.Board, "b",
                            Refs.PlyLimit).Analytics
        /\ \A k \in 1..Len(pre.Refs.BlackStats) :
               Heap[pre.Refs.BlackStats[k]] = pre.Heap[pre.Refs.BlackStats[k]]
        /\ \A k \in 1..Len(pre.Refs.WhiteStats) :
               Heap[pre.Refs.WhiteStats[k]] = pre.Heap[pre.Refs.WhiteStats[k]]

\* The second turn of the bot: the record of its first turn counted nodes,
\* the second call expanded nodes too, and the first record is as it was.
C18_Witness ==
    /\ op = "BotTurn"
    /\ Len(Refs.BlackStats) = 2
    /\ pre.Heap[Refs.BlackStats[1]].NodesExpanded > 0
    /\ Heap[Refs.BlackStats[1]] = pre.Heap[Refs.BlackStats[1]]
    /\ Heap[Refs.Analytics].NodesExpanded > 0
    /\ Heap[Refs.Analytics] # Heap[Refs.BlackStats[1]]
    /\ Heap[Refs.Analytics]
           = ChooseMove(SearchToolBox(Refs.mode), arg.deadline, pre.Board, "b",
                        Refs.PlyLimit).Analytics

\* C21: AllLegalMoves, and IsTerminal which calls it, leave the board
\* unchanged: after the call every one of the 64 cells holds what it held
\* before, whatever the capture-chain search removed and relocated on the
\* way (chains of several jumps, with promotion in the middle, or back to
\* the start cell).
C21_GeneratorRestores ==
    op \in {"AllLegalMoves", "IsTerminal"} =>
        \A rc \in Coordinate : PieceAt(Board, rc) = PieceAt(pre, rc)

\* AllLegalMoves returned a chain of two jumps of a man that reaches its
\* back rank on the first jump and leaves it on the second, and the board
\* is as before the call.
C21_Witness ==
    /\ op = "AllLegalMoves"
    /\ Board = pre
    /\ \E i \in 1..Len(ret) :
           /\ Len(ret[i].captured) = 2
           /\ PieceAt(pre, ret[i].StartingMoveLocation) \in {"w", "b"}
           /\ ret[i].path[2][1] \in {0, 7}
           /\ ret[i].TargetingMoveLocation[1] \notin {0, 7}

\* The root candidates of a search of the given mode, in the order in which
\* the root loop visits them.
Candidates(mode, bd, side) ==
    _OrderMoves(SearchToolBox(mode), [polls |-> 0, Analytics |-> MoveAnalytics],
                bd, side, AllLegalMoves(bd, side).moves).moves

\* The scores the value function returns to the root loop for the
\* candidates from number idx on, each call with the window the loop has
\* narrowed by the scores returned before it.
RECURSIVE RootScores(_, _, _, _, _, _, _, _)
RootScoresFrom(self, r, bd, moves, idx, maximizing, depth, alpha, beta) ==
    <<r.val>> \o RootScores(self, bd, moves, idx + 1, maximizing, depth,
                            IF maximizing THEN Max(alpha, r.val) ELSE alpha,
                            IF maximizing THEN beta ELSE Min(beta, r.val))

RootScores(self, bd, moves, idx, maximizing, depth, alpha, beta) ==
    IF idx > Len(moves) THEN <<>>
    ELSE RootScoresFrom(self,
                        root_value(self, Never, [polls |-> 0, Analytics |-> MoveAnalytics],
                                   ApplyMove(Clone(bd), moves[idx]), maximizing, depth,
                                   alpha, beta),
                        bd, moves, idx, maximizing, depth, alpha, beta)

ScoresOf(mode, bd, side, depth) ==
    RootScores(SearchToolBox(mode), bd, Candidates(mode, bd, side), 1, side = "b", depth,
               0 - Inf, Inf)

\* The best of the scores: the greatest for Black, the smallest for White.
BestScore(scores, side) ==
    CHOOSE v \in SeqRange(scores) :
        \A w \in SeqRange(scores) : IF side = "b" THEN w <= v ELSE w >= v

\* The number of the first candidate whose score is v.
FirstWith(scores, v) ==
    CHOOSE i \in 1..Len(scores) : scores[i] = v /\ \A j \in 1..(i - 1) : scores[j] # v

\* The candidate the root loop must select: the first with the best score.
Selected(cands, scores, side) == cands[FirstWith(scores, BestScore(scores, side))]

\* C22: in the root loop of one depth a candidate replaces the incumbent
\* only when its score is strictly better (greater for Black, smaller for
\* White): among the candidates whose returned score equals the best score
\* the one visited first, in the possibly ordered list, is selected.
C22_FirstBestSelected ==
    (op = "ChooseMove" /\ arg.deadline = Never /\ Len(AllLegalMoves(pre, arg.side).moves) > 0) =>
        /\ ret.score = Some(BestScore(ScoresOf(arg.mode, pre, arg.side, Max(1, arg.PlyLimit)),
                                      arg.side))
        /\ ret.move = Some(Selected(Candidates(arg.mode, pre, arg.side),
                                    ScoresOf(arg.mode, pre, arg.side, Max(1, arg.PlyLimit)),
                                    arg.side))

\* Two different candidates returned the best score and the search selected
\* the one visited first.
C22_Witness ==
    /\ op = "ChooseMove"
    /\ arg.deadline = Never
    /\ arg.PlyLimit >= 2
    /\ Len(AllLegalMoves(pre, arg.side).moves) > 1
    /\ \E i, j \in 1..Len(Candidates(arg.mode, pre, arg.side)) :
           /\ i < j
           /\ Candidates(arg.mode, pre, arg.side)[i] # Candidates(arg.mode, pre, arg.side)[j]
           /\ ScoresOf(arg.mode, pre, arg.side, arg.PlyLimit)[i]
                  = BestScore(ScoresOf(arg.mode, pre, arg.side, arg.PlyLimit), arg.side)
           /\ ScoresOf(arg.mode, pre, arg.side, arg.PlyLimit)[j]
                  = BestScore(ScoresOf(arg.mode, pre, arg.side, arg.PlyLimit), arg.side)
           /\ \A k \in 1..(i - 1) :
                  ScoresOf(arg.mode, pre, arg.side, arg.PlyLimit)[k]
                      # BestScore(ScoresOf(arg.mode, pre, arg.side, arg.PlyLimit), arg.side)
           /\ ret.move = Some(Candidates(arg.mode, pre, arg.side)[i])

\* C23: AllLegalMoves never returns two capture moves with the same
\* (start, path, captured) triple, for any board and side, a king as the
\* mover included.
C23_NoDuplicateChain ==
    op = "AllLegalMoves" =>
        \A i, j \in 1..Len(ret) :
            (/\ i # j
             /\ ret[i].is_capture
             /\ ret[j].is_capture
             /\ ret[i].StartingMoveLocation = ret[j].StartingMoveLocation
             /\ ret[i].path = ret[j].path) => ret[i].captured # ret[j].captured

\* A Black king's jump down to the right, the direction its direction list
\* holds twice, is returned once.
C23_Witness ==
    /\ op = "AllLegalMoves"
    /\ arg.side = "b"
    /\ \E i \in 1..Len(ret) :
           /\ ret[i].is_capture
           /\ PieceAt(pre, ret[i].StartingMoveLocation) = "B"
           /\ ret[i].path[2] = <<ret[i].StartingMoveLocation[1] + 2,
                                 ret[i].StartingMoveLocation[2] + 2>>
           /\ \A j \in 1..Len(ret) : ret[j] = ret[i] => j = i

\* C25: the list AllLegalMoves returns contains no move twice: no two of
\* its entries have the same start cell, end cell and path, whether quiet
\* moves or capture chains, for pieces of every rank.
C25_NoDuplicateMove ==
    op = "AllLegalMoves" =>
        \A i, j \in 1..Len(ret) :
            (/\ ret[i].StartingMoveLocation = ret[j].StartingMoveLocation
             /\ ret[i].TargetingMoveLocation = ret[j].TargetingMoveLocation
             /\ ret[i].path = ret[j].path) => i = j

\* The hypothetical board of the generator after the jumps k.. of a chain
\* with the given path and captured cells, the mover being piece_local
\* before jump k: each jump writes the board as try_captures writes it.
RECURSIVE Hypothetical(_, _, _, _, _, _)
Hypothetical(bd, side, piece_local, path, captured, k) ==
    IF k > Len(captured) THEN bd
    ELSE Hypothetical(hypothesise(bd, path[k][1], path[k][2],
                                  captured[k][1], captured[k][2],
                                  path[k + 1][1], path[k + 1][2],
                                  landed_piece(side, path[k + 1][1], piece_local)),
                      side, landed_piece(side, path[k + 1][1], piece_local),
                      path, captured, k + 1)

\* C24: generation and application agree on the outcome of a capture
\* chain: for every capture move returned by AllLegalMoves, the board after
\* ApplyMove of the move equals the hypothetical board the generator had at
\* the end of the chain; a man promoted on the back rank in the middle of
\* the chain that jumps on to a cell off the back rank is a King there.
C24_ApplyMatchesGenerator ==
    (op = "ApplyMove" /\ arg.move.is_capture) =>
        Board = Hypothetical(pre, arg.side, PieceAt(pre, arg.move.StartingMoveLocation),
                             arg.move.path, arg.move.captured, 1)

\* C26: capture-chain generation terminates on every board (AllLegalMoves
\* returns): each jump of a chain removes one distinct opponent piece, so
\* the jumped cells of a returned chain are distinct cells that held
\* opponent pieces before the call and no chain has more jumps than the
\* opponent has pieces, also for a king whose chain revisits cells or
\* returns to its start cell.
C26_ChainsBounded ==
    op = "AllLegalMoves" =>
        \A i \in 1..Len(ret) :
            /\ Len(ret[i].captured) <= Count(pre, _Opponents(arg.side))
            /\ ret[i].is_capture => Len(ret[i].path) <= Count(pre, _Opponents(arg.side)) + 1
            /\ NoRepeat(ret[i].captured)
            /\ \A k \in 1..Len(ret[i].captured) :
                   PieceAt(pre, ret[i].captured[k]) \in _Opponents(arg.side)

\* A king's chain that jumps every piece of the opponent and ends on the
\* cell where it started, a cell its path holds twice.
C26_Witness ==
    /\ op = "AllLegalMoves"
    /\ \E i \in 1..Len(ret) :
           /\ PieceAt(pre, ret[i].StartingMoveLocation) \in {"W", "B"}
           /\ Len(ret[i].captured) = Count(pre, _Opponents(arg.side))
           /\ Len(ret[i].captured) >= 3
           /\ ~NoRepeat(ret[i].path)
           /\ NoRepeat(ret[i].captured)

\* C27: in the loop of Play the turns alternate strictly, White (human)
\* then Black (bot); a turn is taken only on a board for which IsTerminal()
\* was false immediately before it; hence ChooseMove is never called when
\* Black has no legal move and never returns none (BotTurn never ends the
\* game), and the loop is left only in a state where IsTerminal() is true.
C27_PlayLoop ==
    [][/\ op' = "HumanTurn" => (op \in {"init", "BotTurn"} /\ ~IsTerminal(Board).result)
       /\ op' = "BotTurn" =>
              /\ op = "HumanTurn"
              /\ ~IsTerminal(Board).result
              /\ Len(AllLegalMoves(Board, "b").moves) > 0
       /\ op' # "NoMove"
       /\ op' = "GameOver" => (IsTerminal(Board').result /\ Board' = Board)]_vars

\* The human took the last piece of Black and the loop was left before a
\* turn of the bot, on a board for which IsTerminal() is true.
C27_Witness ==
    /\ op = "GameOver"
    /\ nmoves % 2 = 1
    /\ Len(Refs.WhiteStats) = Len(Refs.BlackStats) + 1
    /\ Count(Board, {"b", "B"}) = 0
    /\ IsTerminal(Board).result

====
